---- MODULE Spec2Model ----
(***************************************************************************)
(* Model of the Indefinite Integration Generator: the derivation engine    *)
(* (IntegrationEngine._detect_u_substitution and IntegrationEngine.compute *)
(* of src/engine.py and src/app.py) and the Compute handler of the         *)
(* Streamlit front end (ApplicationUI.run of src/app.py).                  *)
(*                                                                         *)
(* Texts are sequences of string fragments whose content is their          *)
(* concatenation; the input text is kept character by character, so that   *)
(* str.strip() and the keyboard's += act on characters.  Symbolic          *)
(* expressions are trees (tagged tuples).  The computer-algebra library is *)
(* outside the repository: every answer it gives in one call of compute is *)
(* read                                                                    *)
(* from an answer record `engine`.  For the catalogued input texts the     *)
(* record holds the library's answers for that text.  For the generic      *)
(* inputs (expressions over the undefined functions g(x), h(x), k(x)) the  *)
(* library is left open: each call may give any answer of each kind the    *)
(* code tells apart (zero or not, with x or without, a closed form or an   *)
(* unevaluated Integral), or raise; the answer trees stand for their kind. *)
(* Everything the repository's code does with the answers (the structural  *)
(* tests, the loops, the step list, the exception boundary, the history)   *)
(* is computed by the model.                                               *)
(***************************************************************************)
EXTENDS Integers, Sequences, FiniteSets, TLC

VARIABLES
    variant,      \* which snapshot of the engine runs: "engine" (src/engine.py) or "app" (src/app.py)
    expr_input,   \* st.session_state.expr_input, character by character
    history,      \* st.session_state.history: sequence of [input, result]
    keyboard,     \* the value of the "Show Virtual Keyboard" toggle
    engine,       \* the algebra library's answers for the pending call of compute
    result,       \* the ComputationResult returned by the last call of compute
    obs,          \* what the last call of compute went through (observation of its run)
    ui,           \* how the page update of the last Compute press ended
    pc            \* "ready": compute not yet called; "done": it returned

vars == <<variant, expr_input, history, keyboard, engine, result, obs, ui, pc>>

----------------------------------------------------------------------------
(* Bounds of the model *)

MaxHistory == 3

----------------------------------------------------------------------------
(* Expression trees *)

X == <<"sym", "x">>
U == <<"sym", "u">>
Num(p, q) == <<"num", p, q>>
Zero == Num(0, 1)
Half == Num(1, 2)
Pow(b, e) == <<"pow", b, e>>
Fn(name, arg) == <<"fn", name, arg>>
Mul(args) == <<"mul", args>>
Add(args) == <<"add", args>>
\* Integral(f, v): the unevaluated indefinite integral of f in v
Integral(f, v) == <<"integral", f, v>>
\* Integral(f, (v, b)): the unevaluated antiderivative of f in v taken at v = b
IntegralAt(f, v, b) == <<"integralat", f, v, b>>
\* an expression of x about which nothing more is known: f(x) with f an
\* undefined function
Unknown(name) == <<"fn", name, <<"sym", "x">>>>

\* markers that are no expression
Raise == <<"raise">>
NotAsked == <<"notasked">>

Tag(e) == e[1]

RECURSIVE Has(_, _)
\* Basic.has(symbol)
Has(e, v) ==
    CASE Tag(e) = "sym" -> e = v
      [] Tag(e) = "num" -> FALSE
      [] Tag(e) = "pow" -> Has(e[2], v) \/ Has(e[3], v)
      [] Tag(e) = "fn" -> Has(e[3], v)
      [] Tag(e) \in {"mul", "add"} -> \E i \in 1..Len(e[2]) : Has(e[2][i], v)
      [] Tag(e) = "integral" -> Has(e[2], v) \/ e[3] = v
      [] Tag(e) = "integralat" -> Has(e[4], v) \/ (e[3] # v /\ Has(e[2], v))
      [] OTHER -> FALSE

is_Mul(e) == Tag(e) = "mul"
is_Pow(e) == Tag(e) = "pow"
args(e) == IF Tag(e) \in {"mul", "add"} THEN e[2] ELSE <<e[3]>>
base(e) == e[2]
exp(e) == e[3]
\* isinstance(arg, (sp.sin, sp.cos, sp.tan, sp.exp, sp.log))
ElementaryFunctions == {"sin", "cos", "tan", "exp", "log"}
IsElementaryCall(e) == Tag(e) = "fn" /\ e[2] \in ElementaryFunctions
\* isinstance(antiderivative, sp.Integral)
IsIntegral(e) == Tag(e) \in {"integral", "integralat"}

RECURSIVE ContainsIntegral(_)
\* an unevaluated integral occurs somewhere in the expression
ContainsIntegral(e) ==
    CASE Tag(e) \in {"integral", "integralat"} -> TRUE
      [] Tag(e) = "pow" -> ContainsIntegral(e[2]) \/ ContainsIntegral(e[3])
      [] Tag(e) = "fn" -> ContainsIntegral(e[3])
      [] Tag(e) \in {"mul", "add"} -> \E i \in 1..Len(e[2]) : ContainsIntegral(e[2][i])
      [] OTHER -> FALSE

RECURSIVE Subs(_, _, _)
\* Basic.subs(old, new): structural replacement; substituting the variable of
\* an indefinite Integral evaluates the abstract antiderivative at that point
Subs(e, old, new) ==
    IF e = old /\ Tag(e) # "integral" THEN new
    ELSE CASE Tag(e) = "pow" -> Pow(Subs(e[2], old, new), Subs(e[3], old, new))
           [] Tag(e) = "fn" -> Fn(e[2], Subs(e[3], old, new))
           [] Tag(e) \in {"mul", "add"} ->
                <<Tag(e), [i \in 1..Len(e[2]) |-> Subs(e[2][i], old, new)]>>
           [] Tag(e) = "integral" ->
                IF e[3] = old THEN IntegralAt(e[2], e[3], new)
                ELSE Integral(Subs(e[2], old, new), e[3])
           [] Tag(e) = "integralat" ->
                IntegralAt(IF e[3] = old THEN e[2] ELSE Subs(e[2], old, new),
                           e[3], Subs(e[4], old, new))
           [] OTHER -> e

----------------------------------------------------------------------------
(* Display form (sp.latex) *)

Digits == <<"1", "2", "3", "4", "5", "6", "7", "8", "9">>
IntStr(n) == IF n = 0 THEN "0" ELSE IF n \in 1..9 THEN Digits[n] ELSE "n"
Abs(n) == IF n < 0 THEN -n ELSE n

IsAtom(e) == Tag(e) = "sym" \/ (Tag(e) = "num" /\ e[2] >= 0 /\ e[3] = 1)
\* the functions that have a LaTeX command of their own
NamedFunctions == {"sin", "cos", "tan", "csc", "log"}

RECURSIVE latex(_)
RECURSIVE LatexJoin(_, _, _)
\* the display forms of es[i..], separated by sep; sums inside a product are bracketed
LatexJoin(es, i, sep) ==
    IF i > Len(es) THEN <<>>
    ELSE (IF sep = " " /\ Tag(es[i]) = "add"
          THEN <<"\\left(">> \o latex(es[i]) \o <<"\\right)">>
          ELSE latex(es[i]))
         \o (IF i < Len(es) THEN <<sep>> ELSE <<>>)
         \o LatexJoin(es, i + 1, sep)

latex(e) ==
    CASE Tag(e) = "sym" -> <<e[2]>>
      [] Tag(e) = "num" ->
            IF e[3] = 1
            THEN (IF e[2] < 0 THEN <<"-">> ELSE <<>>) \o <<IntStr(Abs(e[2]))>>
            ELSE (IF e[2] < 0 THEN <<"- ">> ELSE <<>>)
                 \o <<"\\frac{", IntStr(Abs(e[2])), "}{", IntStr(e[3]), "}">>
      [] Tag(e) = "pow" ->
            (IF IsAtom(e[2]) THEN latex(e[2])
             ELSE <<"\\left(">> \o latex(e[2]) \o <<"\\right)">>)
            \o <<"^{">> \o latex(e[3]) \o <<"}">>
      [] Tag(e) = "fn" ->
            (IF e[2] \in NamedFunctions THEN <<"\\">> ELSE <<>>)
            \o <<e[2], "{\\left(">> \o latex(e[3]) \o <<" \\right)}">>
      [] Tag(e) = "add" -> LatexJoin(e[2], 1, " + ")
      [] Tag(e) = "mul" ->
            IF Len(e[2]) > 1 /\ Tag(e[2][1]) = "num"
            THEN LET c == e[2][1]
                     rest == LatexJoin(Tail(e[2]), 1, " ")
                 IN  IF c[3] = 1
                     THEN (IF c[2] = -1 THEN <<"- ">> ELSE latex(c) \o <<" ">>) \o rest
                     ELSE (IF c[2] < 0 THEN <<"- ">> ELSE <<>>)
                          \o <<"\\frac{">>
                          \o (IF Abs(c[2]) = 1 THEN <<>> ELSE <<IntStr(Abs(c[2])), " ">>)
                          \o rest \o <<"}{", IntStr(c[3]), "}">>
            ELSE LatexJoin(e[2], 1, " ")
      [] Tag(e) = "integral" ->
            <<"\\int ">> \o latex(e[2]) \o <<"\\, d">> \o latex(e[3])
      [] Tag(e) = "integralat" ->
            <<"\\int\\limits^{">> \o latex(e[4]) \o <<"} ">> \o latex(e[2])
            \o <<"\\, d">> \o latex(e[3])
      [] OTHER -> <<"?">>

----------------------------------------------------------------------------
(* Input texts, character by character, and what sp.sympify makes of them *)

T_x == <<"x">>
T_xsq == <<"x", "*", "*", "2">>
T_xpow == <<"x", "*", "*">>
T_sinopen == <<"s", "i", "n", "(">>
T_xsin == <<"x", "*", "s", "i", "n", "(", "x", "*", "*", "2", ")">>
T_poly == <<"3", "*", "x", "*", "*", "2", " ", "+", " ", "2", "*", "x">>
T_xx == <<"x", "*", "*", "x">>
T_2xx == <<"2", "*", "x", "*", "*", "x">>
T_bad == <<"3", "x", "^", "^", "2">>
T_xsincsc == T_xsin \o <<"*", "c", "s", "c", "(", "x", "*", "*", "2", ")">>

Two == Num(2, 1)
Three == Num(3, 1)
Xsq == Pow(X, Two)
Xx == Pow(X, X)
SinXsq == Fn("sin", Xsq)
E_xsin == Mul(<<X, SinXsq>>)
E_poly == Add(<<Mul(<<Three, Xsq>>), Mul(<<Two, X>>)>>)
E_2xx == Mul(<<Two, Xx>>)
E_xsincsc == Mul(<<X, SinXsq, Fn("csc", Xsq)>>)

\* generic inputs: expressions over the undefined functions g(x), h(x), k(x)
G == Unknown("g")
H == Unknown("h")
K == Unknown("k")
T_g == <<"g", "(", "x", ")">>
T_h == <<"h", "(", "x", ")">>
T_k == <<"k", "(", "x", ")">>
T_gsum == T_g \o <<" ", "+", " ">> \o T_h
T_xsinx == <<"x", "*", "s", "i", "n", "(", "x", ")">>
T_xsing == <<"x", "*", "s", "i", "n", "(">> \o T_g \o <<")">>
T_gh == <<"x", "*">> \o T_g \o <<"*", "*">> \o T_h
T_ghk == T_g \o <<"*", "*">> \o T_h \o <<"*", "c", "o", "s", "(">> \o T_k \o <<")">>
T_csc == <<"x", "*", "*">> \o T_h \o <<"*", "c", "s", "c", "(">> \o T_g \o <<")">>

CatalogueTexts == {T_x, T_xsq, T_xpow, T_sinopen, T_xsin, T_poly, T_xx, T_2xx, T_bad, T_xsincsc}
GenericTexts == {T_g, T_gsum, T_xsinx, T_xsing, T_gh, T_ghk, T_csc}
KnownTexts == CatalogueTexts \cup GenericTexts

SyntaxErrorText == <<"Sympify of expression 'could not parse ...' failed, because of exception being raised:\nSyntaxError: invalid syntax (<string>, line 1)">>

\* sp.sympify(integrand_str): the parsed expression, or Raise (SympifyError)
sympify(t) ==
    CASE t = T_x -> X
      [] t = T_xsq -> Xsq
      [] t = T_xsin -> E_xsin
      [] t = T_poly -> E_poly
      [] t = T_xx -> Xx
      [] t = T_2xx -> E_2xx
      [] t = T_xsincsc -> E_xsincsc
      [] t = T_g -> G
      [] t = T_gsum -> Add(<<G, H>>)
      [] t = T_xsinx -> Mul(<<X, Fn("sin", X)>>)
      [] t = T_xsing -> Mul(<<X, Fn("sin", G)>>)
      [] t = T_gh -> Mul(<<X, Pow(G, H)>>)
      [] t = T_ghk -> Mul(<<Pow(G, H), Fn("cos", K)>>)
      [] t = T_csc -> Mul(<<Pow(X, H), Fn("csc", G)>>)
      [] OTHER -> Raise

----------------------------------------------------------------------------
(* The substitution detector *)

\* FactorCandidates with the exponent of a power appended before its base
FactorCandidates_ExponentFirst(arg) ==
    IF is_Pow(arg)
    THEN (IF Has(exp(arg), X) /\ exp(arg) # X THEN <<exp(arg)>> ELSE <<>>)
         \o (IF Has(base(arg), X) /\ base(arg) # X THEN <<base(arg)>> ELSE <<>>)
    ELSE IF Tag(arg) = "fn" /\ arg[2] \in {"sin", "cos", "tan", "exp", "log"}
         THEN IF Has(arg[3], X) /\ arg[3] # X THEN <<arg[3]>> ELSE <<>>
         ELSE <<>>

\* the candidates one factor contributes, in the order the loop body appends them
FactorCandidates(arg) ==
    IF is_Pow(arg)
    THEN (IF Has(base(arg), X) /\ base(arg) # X THEN <<base(arg)>> ELSE <<>>)
         \o (IF Has(exp(arg), X) /\ exp(arg) # X THEN <<exp(arg)>> ELSE <<>>)
    ELSE IF IsElementaryCall(arg)
         THEN LET inner_arg == args(arg)[1]
              IN  IF Has(inner_arg, X) /\ inner_arg # X THEN <<inner_arg>> ELSE <<>>
         ELSE <<>>

RECURSIVE HarvestFrom(_, _)
HarvestFrom(factors, i) ==
    IF i > Len(factors) THEN <<>>
    ELSE FactorCandidates(factors[i]) \o HarvestFrom(factors, i + 1)

\* u_candidates after the first loop of _detect_u_substitution
u_candidates(expr) == HarvestFrom(args(expr), 1)

\* what the detector hands back: found (a triple) or not (None), or the
\* exception that left it; examined counts the candidates whose test began
NoCandidate(n) ==
    [found |-> FALSE, raised |-> FALSE, u_expr |-> NotAsked, du_expr |-> NotAsked,
     u_integrand |-> NotAsked, examined |-> n]
Raised(n) == [NoCandidate(n) EXCEPT !.raised = TRUE]

RECURSIVE TestCandidates(_, _, _)
\* the second loop of _detect_u_substitution, from candidate i on; eng.cands[i]
\* holds the library's answers for candidate i:
\*   du    = sp.diff(u_expr, x)
\*   ratio = sp.simplify(expr / du_expr)
\*   uint  = sp.simplify(expr.subs(u_expr, u) / du_expr)
TestCandidates(cands, eng, i) ==
    IF i > Len(cands) THEN NoCandidate(i - 1)
    ELSE LET u_expr == cands[i]
             du_expr == eng.cands[i].du
             ratio == eng.cands[i].ratio
             u_integrand == eng.cands[i].uint
         IN  IF du_expr = Raise THEN Raised(i)
             ELSE IF du_expr = Zero THEN TestCandidates(cands, eng, i + 1)
             ELSE IF ratio = Raise THEN Raised(i)
             ELSE IF ~Has(ratio, X)
                  THEN IF u_integrand = Raise THEN Raised(i)
                       ELSE IF ~Has(u_integrand, X)
                            THEN [found |-> TRUE, raised |-> FALSE, u_expr |-> u_expr,
                                  du_expr |-> du_expr, u_integrand |-> u_integrand,
                                  examined |-> i]
                            ELSE TestCandidates(cands, eng, i + 1)
                  ELSE TestCandidates(cands, eng, i + 1)

RECURSIVE TestCandidates_NoRecheck(_, _, _)
\* TestCandidates without the test that no x is left in u_integrand
TestCandidates_NoRecheck(cands, eng, i) ==
    IF i > Len(cands) THEN NoCandidate(i - 1)
    ELSE LET du_expr == eng.cands[i].du
             ratio == eng.cands[i].ratio
             u_integrand == eng.cands[i].uint
         IN  IF du_expr = Raise THEN Raised(i)
             ELSE IF du_expr = Zero THEN TestCandidates_NoRecheck(cands, eng, i + 1)
             ELSE IF ratio = Raise THEN Raised(i)
             ELSE IF ~Has(ratio, X)
                  THEN IF u_integrand = Raise THEN Raised(i)
                       ELSE [found |-> TRUE, raised |-> FALSE, u_expr |-> cands[i],
                             du_expr |-> du_expr, u_integrand |-> u_integrand,
                             examined |-> i]
                  ELSE TestCandidates_NoRecheck(cands, eng, i + 1)

\* _detect_u_substitution that accepts a candidate on the ratio test alone
_detect_u_substitution_NoRecheck(expr, eng) ==
    IF ~is_Mul(expr) THEN NoCandidate(0)
    ELSE TestCandidates_NoRecheck(u_candidates(expr), eng, 1)

_detect_u_substitution(expr, eng) ==
    IF ~is_Mul(expr) THEN NoCandidate(0)
    ELSE TestCandidates(u_candidates(expr), eng, 1)

----------------------------------------------------------------------------
(* compute *)

\* ComputationResult.__init__
ComputationResult ==
    [given |-> <<>>, method |-> "", steps |-> <<>>, final_answer |-> <<>>,
     verification |-> <<>>, summary |-> <<>>, is_success |-> FALSE,
     error_message |-> <<>>]

MethodSubstitution(v) ==
    IF v = "engine" THEN "Integration by Substitution"
    ELSE "Symbolic Indefinite Integration (Integration by Substitution)"
MethodBasic(v) ==
    IF v = "engine" THEN "Basic Standard Patterns"
    ELSE "Symbolic Indefinite Integration (Basic Standard Patterns)"

StepIdentify(expr) == <<"\\text{Identify the integrand: } f(x) = ">> \o latex(expr)
StepLet(u_expr) == <<"\\text{Let } u = ">> \o latex(u_expr)
StepDifferentiate(v, du_expr) ==
    (IF v = "engine"
     THEN <<"\\text{Differentiate } u \\text{: } \\frac{du}{dx} = ">>
     ELSE <<"\\text{Then differentiate } u \\text{ with respect to } x \\text{: } \\frac{du}{dx} = ">>)
    \o latex(du_expr)
StepIsolate(v, du_expr) ==
    (IF v = "engine"
     THEN <<"\\text{Isolate } dx \\text{: } dx = \\frac{du}{">>
     ELSE <<"\\text{Rearrange to isolate } dx \\text{: } dx = \\frac{du}{">>)
    \o latex(du_expr) \o <<"}">>
StepSubstitute(v) ==
    IF v = "engine"
    THEN <<"\\text{Substitute into original integral:}">>
    ELSE <<"\\text{Substitute } u \\text{ and } dx \\text{ back into the original integral:}">>
StepRewritten(u_integrand) ==
    <<"\\int \\left( ">> \o latex(u_integrand) \o <<" \\right) \\, du">>
StepEvaluateU(v, antiderivative_u) ==
    (IF v = "engine"
     THEN <<"\\text{Evaluate integral: } ">>
     ELSE <<"\\text{Evaluate the integral with respect to } u \\text{: } ">>)
    \o latex(antiderivative_u)
StepBack(v, u_expr, antiderivative) ==
    (IF v = "engine"
     THEN <<"\\text{Substitute } u \\text{ back: } ">>
     ELSE <<"\\text{Substitute } ">> \o latex(u_expr) \o <<" \\text{ back in for } u \\text{: } ">>)
    \o latex(antiderivative)
StepBasic(v, antiderivative) ==
    (IF v = "engine"
     THEN <<"\\text{Evaluate using basic rules: } ">>
     ELSE <<"\\text{Evaluate using basic standard rules: } ">>)
    \o latex(antiderivative)
StepConstant == <<"\\text{Add the constant of integration, } C.">>

\* SubstitutionSetup with the differential isolated before du/dx is stated
SubstitutionSetup_Swapped(v, d) ==
    <<StepLet(d.u_expr), StepIsolate(v, d.du_expr), StepDifferentiate(v, d.du_expr),
      StepSubstitute(v), StepRewritten(d.u_integrand)>>

\* the steps of the substitution branch that precede the integration in u
SubstitutionSetup(v, d) ==
    <<StepLet(d.u_expr), StepDifferentiate(v, d.du_expr), StepIsolate(v, d.du_expr),
      StepSubstitute(v), StepRewritten(d.u_integrand)>>

\* str(e) of the ValueError compute raises itself
UnsupportedText(v) ==
    IF v = "engine"
    THEN <<"Requires advanced techniques beyond Basic Patterns/U-Sub, or has no closed-form solution.">>
    ELSE <<"This integral requires advanced techniques beyond Basic Patterns and U-Substitution, or has no closed-form solution.">>

\* ErrorMessage without the "Error: " prefix
ErrorMessage_NoPrefix(e) == e

\* f"Error: {str(e)}"
ErrorMessage(e) == <<"Error: ">> \o e

\* Failed that stores the message and reports success
Failed_FlagSet(r, e) == [r EXCEPT !.is_success = TRUE, !.error_message = ErrorMessage(e)]

\* the except clause of compute: what was stored in result before the
\* exception stays
Failed(r, e) == [r EXCEPT !.is_success = FALSE, !.error_message = ErrorMessage(e)]

VerificationText(antiderivative, derivative) ==
    <<"\\text{Back-check by differentiating: } \\frac{d}{dx}\\left[">>
    \o latex(antiderivative) \o <<"\\right] = ">> \o latex(derivative)
QualifierSuccessful == "**Verification Successful:**"
QualifierWarning == "**Verification Warning:**"
\* Verification with the two qualifiers exchanged
Verification_Exchanged(v, antiderivative, derivative, residual) ==
    VerificationText(antiderivative, derivative)
    \o (IF residual # Zero
        THEN <<"\n\n", QualifierSuccessful, " Derivative matches the integrand.">>
        ELSE <<"\n\n", QualifierWarning,
               " Symbolic equivalence to 0 not trivially established.">>)

\* the verification phase's text, from the residual
Verification(v, antiderivative, derivative, residual) ==
    VerificationText(antiderivative, derivative)
    \o (IF residual = Zero
        THEN <<"\n\n", QualifierSuccessful,
               IF v = "engine" THEN " Derivative matches the integrand."
               ELSE " Derivative matches the integrand (Residual = 0).">>
        ELSE <<"\n\n", QualifierWarning,
               " Symbolic equivalence to 0 not trivially established.">>)

\* result.summary; the clock's readings are not modelled
Summary(v) ==
    <<<<"Runtime", "<elapsed> ms">>,
      <<"Iterations", IF v = "engine" THEN "1" ELSE "1 (Symbolic Pass with Substitution Check)">>,
      <<"Timestamp", "<now>">>>>

Observation(at, det, anti, residual) ==
    [raisedAt |-> at, det |-> det, antiderivative |-> anti, residual |-> residual]

\* Finish with a verification phase that catches its own exceptions and
\* reports them as the warning
Finish_SoftVerification(v, eng, r, det, expr, antiderivative) ==
    LET r1 == [r EXCEPT !.final_answer = latex(antiderivative) \o <<" + C">>]
    IN  IF eng.deriv = Raise \/ eng.resid = Raise
        THEN [result |-> [r1 EXCEPT
                            !.verification = <<"\n\n", QualifierWarning,
                                               " Symbolic equivalence to 0 not trivially established.">>,
                            !.summary = Summary(v),
                            !.is_success = TRUE],
              obs |-> Observation("verification", det, antiderivative, NotAsked)]
        ELSE [result |-> [r1 EXCEPT
                            !.verification = Verification(v, antiderivative, eng.deriv, eng.resid),
                            !.summary = Summary(v),
                            !.is_success = TRUE],
              obs |-> Observation("none", det, antiderivative, eng.resid)]

\* the verification phase and the end of the try block, from
\* result.final_answer on
Finish(v, eng, r, det, expr, antiderivative) ==
    LET r1 == [r EXCEPT !.final_answer = latex(antiderivative) \o <<" + C">>]
        derivative == eng.deriv
        residual == eng.resid
    IN  IF derivative = Raise \/ residual = Raise
        THEN [result |-> Failed(r1, eng.msg),
              obs |-> Observation("verification", det, antiderivative, NotAsked)]
        ELSE [result |-> [r1 EXCEPT
                            !.verification = Verification(v, antiderivative, derivative, residual),
                            !.summary = Summary(v),
                            !.is_success = TRUE],
              obs |-> Observation("none", det, antiderivative, residual)]

\* the branch of compute taken when the detector found a candidate
SubstitutionBranch(v, eng, r, det, expr) ==
    LET r1 == [r EXCEPT !.method = MethodSubstitution(v),
                        !.steps = @ \o SubstitutionSetup(v, det)]
        antiderivative_u == eng.anti_u
    IN  IF antiderivative_u = Raise
        THEN [result |-> Failed(r1, eng.msg),
              obs |-> Observation("integration", det, NotAsked, NotAsked)]
        ELSE LET r2 == [r1 EXCEPT !.steps = Append(@, StepEvaluateU(v, antiderivative_u))]
                 antiderivative == Subs(antiderivative_u, U, det.u_expr)
             IN  IF eng.back_raises
                 THEN [result |-> Failed(r2, eng.msg),
                       obs |-> Observation("backsub", det, antiderivative_u, NotAsked)]
                 ELSE Finish(v, eng,
                             [r2 EXCEPT !.steps = @ \o <<StepBack(v, det.u_expr, antiderivative),
                                                         StepConstant>>],
                             det, expr, antiderivative)

\* the branch of compute taken when the detector found none
BasicBranch(v, eng, r, det, expr) ==
    LET r1 == [r EXCEPT !.method = MethodBasic(v)]
        antiderivative == eng.anti_x
    IN  IF antiderivative = Raise
        THEN [result |-> Failed(r1, eng.msg),
              obs |-> Observation("integration", det, NotAsked, NotAsked)]
        ELSE IF IsIntegral(antiderivative)
        THEN [result |-> Failed(r1, UnsupportedText(v)),
              obs |-> Observation("unsupported", det, antiderivative, NotAsked)]
        ELSE Finish(v, eng,
                    [r1 EXCEPT !.steps = @ \o <<StepBasic(v, antiderivative), StepConstant>>],
                    det, expr, antiderivative)

\* IntegrationEngine.compute(integrand_str) of snapshot v, with the library
\* answering from eng: the result returned and the observation of the run
compute(v, integrand_str, eng) ==
    LET result0 == ComputationResult
        expr == sympify(integrand_str)
    IN  IF expr = Raise
        THEN [result |-> Failed(result0, SyntaxErrorText),
              obs |-> Observation("parse", NotAsked, NotAsked, NotAsked)]
        ELSE LET r1 == [result0 EXCEPT
                          !.given = <<"\\int \\left( ">> \o latex(expr) \o <<" \\right) \\, dx">>,
                          !.steps = Append(@, StepIdentify(expr))]
                 u_sub_data == _detect_u_substitution(expr, eng)
             IN  IF u_sub_data.raised
                 THEN [result |-> Failed(r1, eng.msg),
                       obs |-> Observation("detector", u_sub_data, NotAsked, NotAsked)]
                 ELSE IF u_sub_data.found
                 THEN SubstitutionBranch(v, eng, r1, u_sub_data, expr)
                 ELSE BasicBranch(v, eng, r1, u_sub_data, expr)

----------------------------------------------------------------------------
(* The algebra library's answers *)

NoAnswers ==
    [cands |-> <<>>, anti_u |-> NotAsked, anti_x |-> NotAsked, back_raises |-> FALSE,
     deriv |-> NotAsked, resid |-> NotAsked, msg |-> <<>>]

CandidateAnswer(du, ratio, uint) == [du |-> du, ratio |-> ratio, uint |-> uint]

\* the library's answers for the catalogued texts
KnownAnswers(t) ==
    CASE t = T_x ->
            [NoAnswers EXCEPT !.anti_x = Mul(<<Half, Xsq>>), !.deriv = X, !.resid = Zero]
      [] t = T_xsq ->
            [NoAnswers EXCEPT !.anti_x = Mul(<<Num(1, 3), Pow(X, Three)>>),
                              !.deriv = Xsq, !.resid = Zero]
      [] t = T_xsin ->
            [NoAnswers EXCEPT
               !.cands = <<CandidateAnswer(Mul(<<Two, X>>), Mul(<<Half, SinXsq>>), NotAsked)>>,
               !.anti_x = Mul(<<Num(-1, 2), Fn("cos", Xsq)>>),
               !.deriv = E_xsin, !.resid = Zero]
      [] t = T_poly ->
            [NoAnswers EXCEPT !.anti_x = Add(<<Pow(X, Three), Xsq>>),
                              !.deriv = E_poly, !.resid = Zero]
      [] t = T_xx ->
            [NoAnswers EXCEPT !.anti_x = Integral(Xx, X)]
      [] t = T_2xx ->
            [NoAnswers EXCEPT !.anti_x = Mul(<<Two, Integral(Xx, X)>>),
                              !.deriv = E_2xx, !.resid = Zero]
      [] t = T_xsincsc ->
            [NoAnswers EXCEPT
               !.cands = <<CandidateAnswer(Mul(<<Two, X>>), Half, Half)>>,
               !.anti_u = Mul(<<Half, U>>), !.deriv = X, !.resid = Zero]
      [] OTHER -> NoAnswers

\* str(e) of an exception the library raises: possibly empty
Messages == {<<>>, <<"library failure">>}

\* the answers the library may give about one candidate of a generic input
CandidateAnswers(c) ==
    LET d == Fn("Derivative", c)
    IN  {CandidateAnswer(Raise, NotAsked, NotAsked),
         CandidateAnswer(Zero, NotAsked, NotAsked),
         CandidateAnswer(d, Raise, NotAsked),
         CandidateAnswer(d, Unknown("r"), NotAsked),
         CandidateAnswer(d, Half, Raise),
         CandidateAnswer(d, Half, Mul(<<X, Fn("w", U)>>)),
         CandidateAnswer(d, Half, Half),
         CandidateAnswer(Two, Fn("sin", U), Fn("sin", U))}

CandidateAnswerSeqs(cands) ==
    {cs \in [1..Len(cands) -> UNION {CandidateAnswers(cands[i]) : i \in 1..Len(cands)}] :
        \A i \in 1..Len(cands) : cs[i] \in CandidateAnswers(cands[i])}

\* the answers after the detector: the integration (a closed form, an
\* unevaluated Integral, a sum with an unevaluated Integral in it, or an
\* exception), the back-substitution, the derivative and the residual; a call
\* that is not reached is NotAsked
TailAnswers ==
    {t \in [anti : {"closed", "integral", "partial", "raise"}, back_raises : BOOLEAN,
            deriv : {Unknown("F'"), Raise, NotAsked},
            resid : {Zero, Unknown("d"), Raise, NotAsked}] :
        /\ t.anti = "raise" <=> t.deriv = NotAsked
        /\ t.anti = "raise" => ~t.back_raises
        /\ t.deriv # Unknown("F'") <=> t.resid = NotAsked}

AntiOf(kind, v) ==
    CASE kind = "closed" -> Fn("F", v)
      [] kind = "integral" -> Integral(Fn("f", v), v)
      [] kind = "partial" -> Add(<<Fn("F", v), Integral(Fn("f", v), v)>>)
      [] OTHER -> Raise

GenericAnswers(t) ==
    LET expr == sympify(t)
        cands == IF is_Mul(expr) THEN u_candidates(expr) ELSE <<>>
    IN  {[cands |-> cs, anti_u |-> AntiOf(tl.anti, U), anti_x |-> AntiOf(tl.anti, X),
          back_raises |-> tl.back_raises, deriv |-> tl.deriv, resid |-> tl.resid,
          msg |-> m] :
            cs \in CandidateAnswerSeqs(cands), tl \in TailAnswers, m \in Messages}

Answers(t) == IF t \in GenericTexts THEN GenericAnswers(t) ELSE {KnownAnswers(t)}

----------------------------------------------------------------------------
(* One call of compute *)

NoObservation == Observation("none", NotAsked, NotAsked, NotAsked)

Init ==
    /\ variant \in {"engine", "app"}
    /\ expr_input \in KnownTexts
    /\ engine \in Answers(expr_input)
    /\ history = <<>>
    /\ keyboard = FALSE
    /\ result = ComputationResult
    /\ obs = NoObservation
    /\ ui = "idle"
    /\ pc = "ready"

Call ==
    /\ pc = "ready"
    /\ LET c == compute(variant, expr_input, engine)
       IN  /\ result' = c.result
           /\ obs' = c.obs
    /\ pc' = "done"
    /\ UNCHANGED <<variant, expr_input, history, keyboard, engine, ui>>

Next == Call

Spec == Init /\ [][Next]_vars

----------------------------------------------------------------------------
(* The session: the input field, the virtual keyboard and the Compute button *)

\* the characters str.strip() removes (those str.isspace() accepts), 29 in all:
\* space, tab, line feed, carriage return, form feed; the ASCII control
\* characters U+000B and U+001C to U+001F, written as the characters themselves;
\* and the spaces beyond ASCII, each spelled by its escape, since a string here
\* holds ASCII only: a character beyond ASCII in a text is the fragment "\\uXXXX"
AsciiWhitespace == {" ", "\t", "\n", "\r", "\f"}
ControlWhitespace == {"", "", "", "", ""}
UnicodeWhitespace ==
    {"\\u0085", "\\u00a0", "\\u1680", "\\u2000", "\\u2001", "\\u2002", "\\u2003", "\\u2004",
     "\\u2005", "\\u2006", "\\u2007", "\\u2008", "\\u2009", "\\u200a", "\\u2028", "\\u2029",
     "\\u202f", "\\u205f", "\\u3000"}
Whitespace == AsciiWhitespace \cup ControlWhitespace \cup UnicodeWhitespace

RECURSIVE LStrip(_)
LStrip(t) == IF t # <<>> /\ Head(t) \in Whitespace THEN LStrip(Tail(t)) ELSE t
RECURSIVE RStrip(_)
RStrip(t) ==
    IF t # <<>> /\ t[Len(t)] \in Whitespace THEN RStrip(SubSeq(t, 1, Len(t) - 1)) ELSE t
\* str.strip()
Strip(t) == RStrip(LStrip(t))

Padded(t) == <<" ">> \o t \o <<" ">>

\* the texts the input field holds in the model
SessionTexts ==
    {<<>>, <<" ">>, T_x, Padded(T_x), <<"\r">> \o T_x \o <<"\f">>, T_xsq, T_xpow, T_sinopen,
     T_xsin, Padded(T_xsin), T_xx, T_2xx, T_bad}

\* the values the keyboard's buttons append
KeyValues ==
    {<<"*", "*", "2">>, <<"*", "*", "3">>, <<"*", "*">>, <<"s", "q", "r", "t", "(">>,
     <<"s", "i", "n", "(">>, <<"c", "o", "s", "(">>, <<"t", "a", "n", "(">>,
     <<"e", "x", "p", "(">>, <<"p", "i">>, <<" ", "+", " ">>, <<" ", "-", " ">>,
     <<" ", "*", " ">>, <<" ", "/", " ">>, <<"(">>, <<")">>}

InitUI ==
    /\ variant = "app"
    /\ expr_input = <<>>
    /\ history = <<>>
    /\ keyboard = FALSE
    /\ engine = NoAnswers
    /\ result = ComputationResult
    /\ obs = NoObservation
    /\ ui = "idle"
    /\ pc = "ready"

\* the user edits the text input
TextInput(t) ==
    /\ expr_input' = t
    /\ UNCHANGED <<variant, history, keyboard, engine, result, obs, ui, pc>>

\* the user flips the keyboard toggle
ToggleKeyboard ==
    /\ keyboard' = ~keyboard
    /\ UNCHANGED <<variant, expr_input, history, engine, result, obs, ui, pc>>

\* ApplicationUI._append_to_input(val)
_append_to_input(val) ==
    /\ keyboard
    /\ expr_input \o val \in SessionTexts
    /\ expr_input' = expr_input \o val
    /\ UNCHANGED <<variant, history, keyboard, engine, result, obs, ui, pc>>

\* the keyboard's Clear button
ClearInput ==
    /\ keyboard
    /\ expr_input' = <<>>
    /\ UNCHANGED <<variant, history, keyboard, engine, result, obs, ui, pc>>

\* the entry the Compute handler appends
HistoryEntry(current_input, res) == [input |-> current_input, result |-> res]

\* AppendToHistory without the comparison with the last entry
AppendToHistory_Always(h, current_input, res) ==
    Append(h, HistoryEntry(current_input, res))

\* the history after a successful compute of current_input
AppendToHistory(h, current_input, res) ==
    IF h = <<>> \/ h[Len(h)].input # current_input
    THEN Append(h, HistoryEntry(current_input, res))
    ELSE h

\* ApplicationUI.render_trail(res): a sequence of Streamlit calls and nothing
\* else.  Each of them can end the run (it raises, or the run is stopped there
\* because the session asked for a rerun or was closed), and run() has no
\* handler around the call: the statements after render_trail are then not
\* executed.  The two ways the call can end:
TrailRendered == "Solution Trail"
TrailAbandoned == "Solution Trail abandoned"
render_trail == {TrailRendered, TrailAbandoned}

\* the Compute button of ApplicationUI.run: strip, compute, then on success
\* render_trail and, when that returns, the append to the history
ComputePress ==
    /\ IF Strip(expr_input) = <<>>
       THEN /\ ui' = "Please enter an integrand."
            /\ UNCHANGED <<history, engine, result, obs, pc>>
       ELSE LET current_input == Strip(expr_input)
                eng == KnownAnswers(current_input)
                c == compute(variant, current_input, eng)
            IN  /\ engine' = eng
                /\ result' = c.result
                /\ obs' = c.obs
                /\ pc' = "done"
                /\ IF c.result.is_success
                   THEN \E trail \in render_trail :
                            /\ ui' = trail
                            /\ history' =
                                   IF trail = TrailRendered
                                   THEN AppendToHistory(history, current_input, c.result)
                                   ELSE history
                   ELSE /\ ui' = "Computation Failed"
                        /\ UNCHANGED history
    /\ Len(history') <= MaxHistory
    /\ UNCHANGED <<variant, expr_input, keyboard>>

NextUI ==
    \/ \E t \in SessionTexts : TextInput(t)
    \/ ToggleKeyboard
    \/ \E val \in KeyValues : _append_to_input(val)
    \/ ClearInput
    \/ ComputePress

SpecUI == InitUI /\ [][NextUI]_vars

----------------------------------------------------------------------------
(* Properties *)

\* the text has content
NonEmpty(t) == \E i \in 1..Len(t) : t[i] # ""
\* the fragment occurs in the text
Contains(t, fragment) == \E i \in 1..Len(t) : t[i] = fragment
ShowsIntegral(t) == Contains(t, "\\int ") \/ Contains(t, "\\int\\limits^{")

Returned == pc = "done"
RaisedSomewhere ==
    obs.raisedAt \in {"parse", "detector", "integration", "unsupported", "backsub",
                      "verification"}

\* C1: compute returns a result for every input text, and whenever an
\* exception is raised by parsing, by the detector, by the integration, by
\* the back-substitution or by the verification phase, the returned result
\* has is_success = false and a non-empty error_message.
C1_FailuresAreReturned ==
    Returned /\ RaisedSomewhere =>
        /\ result.is_success = FALSE
        /\ NonEmpty(result.error_message)

\* the back-substitution raised an exception whose message is empty
C1_Witness ==
    /\ Returned
    /\ obs.raisedAt = "backsub"
    /\ engine.msg = <<>>
    /\ ~result.is_success

\* C2 (as claimed): whenever sp.integrate leaves an unevaluated integral, on
\* either branch, compute returns a failure, and no successful result shows
\* an unevaluated integral in its final_answer.
C2_UnevaluatedIsFailure ==
    Returned =>
        /\ (obs.raisedAt # "parse" /\ obs.antiderivative # NotAsked
                /\ ContainsIntegral(obs.antiderivative)) => ~result.is_success
        /\ result.is_success => ~ShowsIntegral(result.final_answer)

\* C3 (as claimed): an exception in the verification phase gives a
\* successful result with the final answer and the warning qualifier.
C3_VerificationNeverFails ==
    Returned /\ obs.raisedAt = "verification" =>
        /\ result.is_success
        /\ NonEmpty(result.final_answer)
        /\ Contains(result.verification, QualifierWarning)

\* C3 (amended): an exception in the verification phase gives a failure
\* result that keeps the final answer and has no verification text; the
\* warning qualifier stands only in successful results whose residual was
\* computed and is not zero.
C3_VerificationFailureIsFailure ==
    Returned =>
        /\ obs.raisedAt = "verification" =>
              /\ ~result.is_success
              /\ NonEmpty(result.error_message)
              /\ result.verification = <<>>
              /\ NonEmpty(result.final_answer)
        /\ Contains(result.verification, QualifierWarning) =>
              /\ result.is_success
              /\ obs.residual \notin {Zero, NotAsked, Raise}

\* the derivative was computed and simplifying the residual raised
C3_Witness ==
    /\ Returned
    /\ obs.raisedAt = "verification"
    /\ engine.deriv # Raise
    /\ engine.resid = Raise

MinusHalfCosXsq == Mul(<<Num(-1, 2), Fn("cos", Xsq)>>)

\* C4 (as claimed): for x*sin(x**2) the detector accepts u = x**2 with
\* du/dx = 2*x and the rewritten integrand sin(u)/2, compute returns a
\* success with the substitution label, the final answer -cos(x**2)/2 + C
\* and a successful verification.
C4_SubstitutionScenario ==
    Returned /\ expr_input = T_xsin =>
        /\ result.is_success
        /\ obs.det.found
        /\ obs.det.u_expr = Xsq
        /\ obs.det.du_expr = Mul(<<Two, X>>)
        /\ obs.det.u_integrand = Mul(<<Half, Fn("sin", U)>>)
        /\ result.method = MethodSubstitution(variant)
        /\ result.final_answer = latex(MinusHalfCosXsq) \o <<" + C">>
        /\ Contains(result.verification, QualifierSuccessful)

\* C5: in every result compute returns, is_success is true exactly when
\* error_message is empty.
C5_SuccessXorMessage ==
    Returned => (result.is_success <=> ~NonEmpty(result.error_message))

\* a failure that already carries a method, steps and a final answer
C5_Witness ==
    /\ Returned
    /\ ~result.is_success
    /\ NonEmpty(result.error_message)
    /\ NonEmpty(result.final_answer)
    /\ result.method = MethodBasic(variant)

\* C6: a successful result carries exactly one of the two qualifiers, the
\* successful one exactly when the residual is zero and the warning
\* otherwise.
C6_QualifierFollowsResidual ==
    Returned /\ result.is_success =>
        /\ Contains(result.verification, QualifierSuccessful) <=> obs.residual = Zero
        /\ Contains(result.verification, QualifierWarning) <=> obs.residual # Zero
        /\ Contains(result.verification, QualifierSuccessful)
              # Contains(result.verification, QualifierWarning)

\* a successful result whose residual is not zero
C6_Witness ==
    /\ Returned
    /\ result.is_success
    /\ obs.residual = Unknown("d")
    /\ Contains(result.verification, QualifierWarning)

\* what a step says, from the text it opens with
StepKind(step) ==
    CASE step[1] = "\\text{Identify the integrand: } f(x) = " -> "identify"
      [] step[1] = "\\text{Let } u = " -> "declare u"
      [] step[1] \in {"\\text{Differentiate } u \\text{: } \\frac{du}{dx} = ",
                      "\\text{Then differentiate } u \\text{ with respect to } x \\text{: } \\frac{du}{dx} = "}
            -> "du/dx"
      [] step[1] \in {"\\text{Isolate } dx \\text{: } dx = \\frac{du}{",
                      "\\text{Rearrange to isolate } dx \\text{: } dx = \\frac{du}{"}
            -> "isolate dx"
      [] step[1] \in {"\\text{Substitute into original integral:}",
                      "\\text{Substitute } u \\text{ and } dx \\text{ back into the original integral:}",
                      "\\int \\left( "}
            -> "rewritten integral"
      [] step[1] \in {"\\text{Evaluate integral: } ",
                      "\\text{Evaluate the integral with respect to } u \\text{: } "}
            -> "evaluate in u"
      [] step[1] \in {"\\text{Substitute } u \\text{ back: } ", "\\text{Substitute } "}
            -> "back-substitute"
      [] step[1] \in {"\\text{Evaluate using basic rules: } ",
                      "\\text{Evaluate using basic standard rules: } "}
            -> "evaluate by rules"
      [] step[1] = "\\text{Add the constant of integration, } C." -> "constant"
      [] OTHER -> "other"
StepKinds(steps) == [i \in 1..Len(steps) |-> StepKind(steps[i])]

\* C7: the steps of a successful substitution result are, in order:
\* identify, declare u, du/dx, isolate dx, the rewritten integral (its
\* caption and the integral), evaluate in u, back-substitute, constant; the
\* steps of a successful basic-pattern result are exactly identify,
\* evaluate by rules, constant.
C7_StepOrder ==
    Returned /\ result.is_success =>
        /\ result.method = MethodSubstitution(variant) =>
              StepKinds(result.steps) =
                  <<"identify", "declare u", "du/dx", "isolate dx", "rewritten integral",
                    "rewritten integral", "evaluate in u", "back-substitute", "constant">>
        /\ result.method = MethodBasic(variant) =>
              StepKinds(result.steps) = <<"identify", "evaluate by rules", "constant">>
        /\ result.method \in {MethodSubstitution(variant), MethodBasic(variant)}

\* a successful substitution result of the app snapshot
C7_Witness ==
    /\ Returned
    /\ result.is_success
    /\ variant = "app"
    /\ result.method = MethodSubstitution("app")
    /\ Len(result.steps) = 9

NoAdjacentDuplicates ==
    \A i \in 1..(Len(history) - 1) : history[i].input # history[i + 1].input

\* a Compute press whose stripped input t is not empty, whose compute
\* succeeded, and which found the history empty or ending in another input
Appendable ==
    LET t == Strip(expr_input)
    IN  /\ t # <<>>
        /\ result'.is_success
        /\ (history = <<>> \/ history[Len(history)].input # t)

AppendedOne ==
    history' = Append(history, [input |-> Strip(expr_input), result |-> result'])

OnlySuccessesKept ==
    /\ NoAdjacentDuplicates
    /\ \A i \in 1..Len(history) : history[i].result.is_success

\* the statement as the claim words it: the history is append-only and
\* deduplicated against its last entry only, and a Compute press appends one
\* entry for the stripped input exactly when compute succeeded and the
\* history is empty or its last input differs
C8_SuccessAlwaysAppends ==
    /\ []OnlySuccessesKept
    /\ [][IF ComputePress /\ Appendable THEN AppendedOne ELSE history' = history]_vars

\* C8: the history is append-only and deduplicated against its last entry
\* only: a Compute press appends one entry for the stripped input exactly
\* when compute succeeded, the solution trail was rendered to its end, and the
\* history is empty or its last input differs; a press whose run ends inside
\* the rendering, a failed compute, an empty input and every other step leave
\* the history as it is; entries are never removed or reordered, and no two
\* adjacent entries share an input.
C8_HistoryAppendOnly ==
    /\ []OnlySuccessesKept
    /\ [][IF ComputePress /\ Appendable /\ ui' = TrailRendered
          THEN AppendedOne
          ELSE history' = history]_vars

\* a successful compute of an input that the entry before the last one holds
\* and the last one does not, abandoned during rendering: nothing was appended
C8_Witness ==
    /\ ui = TrailAbandoned
    /\ result.is_success
    /\ Len(history) = 2
    /\ history[1].input = Strip(expr_input)
    /\ history[2].input # Strip(expr_input)

\* the library's answers about one candidate, read apart from the loop
Qualifies(a) ==
    /\ a.du \notin {Raise, Zero}
    /\ a.ratio # Raise
    /\ ~Has(a.ratio, X)
    /\ a.uint # Raise
    /\ ~Has(a.uint, X)
RaisesIn(a) ==
    \/ a.du = Raise
    \/ /\ a.du # Zero
       /\ \/ a.ratio = Raise
          \/ ~Has(a.ratio, X) /\ a.uint = Raise
Rejected(a) == ~Qualifies(a) /\ ~RaisesIn(a)

DetectorRan == Returned /\ obs.raisedAt # "parse"
Parsed == sympify(expr_input)
Candidates == IF is_Mul(Parsed) THEN u_candidates(Parsed) ELSE <<>>

\* C9: a candidate the detector returns has no x in u_integrand and a
\* du_expr that is not zero; a candidate that fails a test is skipped
\* without raising; with no qualifying candidate, or an integrand that is
\* not a product, the detector returns none.
C9_ReturnedCandidateIsClean ==
    DetectorRan =>
        /\ obs.det.found =>
              /\ ~Has(obs.det.u_integrand, X)
              /\ obs.det.du_expr # Zero
              /\ obs.det.u_integrand \notin {NotAsked, Raise}
        /\ ~is_Mul(Parsed) => ~obs.det.found /\ ~obs.det.raised /\ obs.det.examined = 0
        /\ (\A i \in 1..Len(Candidates) : Rejected(engine.cands[i])) =>
              ~obs.det.found /\ ~obs.det.raised
        /\ obs.det.raised => RaisesIn(engine.cands[obs.det.examined])

\* the second candidate is returned after the first left x in u_integrand
C9_Witness ==
    /\ DetectorRan
    /\ obs.det.found
    /\ obs.det.examined = 2
    /\ Has(engine.cands[1].uint, X)

\* the factor's part that the harvest may propose
PartOf(c, factor) ==
    \/ is_Pow(factor) /\ (c = base(factor) \/ c = exp(factor))
    \/ IsElementaryCall(factor) /\ c = args(factor)[1]
Parts(factor) ==
    IF is_Pow(factor) THEN {base(factor), exp(factor)}
    ELSE IF IsElementaryCall(factor) THEN {args(factor)[1]} ELSE {}
HarvestOrder(expr) ==
    LET cands == u_candidates(expr)
        factors == args(expr)
    IN  /\ \A i \in 1..Len(cands) :
              /\ Has(cands[i], X) /\ cands[i] # X
              /\ \E f \in 1..Len(factors) : PartOf(cands[i], factors[f])
        /\ \A f \in 1..Len(factors) :
              \A c \in Parts(factors[f]) :
                  (Has(c, X) /\ c # X) => \E i \in 1..Len(cands) : cands[i] = c
        /\ \A i, j \in 1..Len(cands) :
              i < j =>
                  \E f, g \in 1..Len(factors) :
                      /\ f <= g
                      /\ PartOf(cands[i], factors[f])
                      /\ PartOf(cands[j], factors[g])
                      /\ f = g => /\ is_Pow(factors[f])
                                  /\ cands[i] = base(factors[f])
                                  /\ cands[j] = exp(factors[f])

\* C10: the candidates are tested in harvesting order (factor by factor, a
\* power's base before its exponent); the detector returns the first one
\* that passes the three tests and examines none after it; a candidate that
\* fails a test does not end the search.
C10_FirstQualifyingCandidate ==
    DetectorRan /\ is_Mul(Parsed) =>
        /\ HarvestOrder(Parsed)
        /\ obs.det.found =>
              LET i == obs.det.examined
              IN  /\ i \in 1..Len(Candidates)
                  /\ obs.det.u_expr = Candidates[i]
                  /\ obs.det.du_expr = engine.cands[i].du
                  /\ obs.det.u_integrand = engine.cands[i].uint
                  /\ Qualifies(engine.cands[i])
                  /\ \A j \in 1..(i - 1) : Rejected(engine.cands[j])
        /\ (~obs.det.found /\ ~obs.det.raised) =>
              /\ obs.det.examined = Len(Candidates)
              /\ \A j \in 1..Len(Candidates) : Rejected(engine.cands[j])

\* of three candidates the second is returned although the third qualifies too
C10_Witness ==
    /\ DetectorRan
    /\ Len(Candidates) = 3
    /\ Candidates = <<G, H, K>>
    /\ obs.det.found
    /\ obs.det.u_expr = H
    /\ engine.cands[1].du = Zero
    /\ Qualifies(engine.cands[3])

====
